---------------------------- MODULE Spec2Model ----------------------------
(***************************************************************************)
(* Steam games dashboard and keyword chatbot (src/app.py, src/chatbot.py). *)
(*                                                                         *)
(* Both scripts are Streamlit scripts: every user interaction re-runs the  *)
(* whole script from the top.  One run loads the dataset through the       *)
(* st.cache_data memo, configures the Gemini client, draws the widgets and *)
(* handles the text query: simple_chatbot answers it from the dataframe    *)
(* and, when enabled, ai_chatbot forwards it to the hosted model.          *)
(*                                                                         *)
(* Text is modelled as a sequence of one-character strings, so that        *)
(* str.lower() and the substring test `phrase in q` are computed on        *)
(* characters.  Prices are integers in cents.  Every cell of the dataset   *)
(* is present (no missing values), as in the data model of the             *)
(* specification.                                                          *)
(***************************************************************************)
EXTENDS Integers, Sequences, FiniteSets, TLC

(***************************************************************************)
(* Bounds of the model.                                                    *)
(***************************************************************************)
MaxRows == 3
MaxChunks == 2

(***************************************************************************)
(* Text: characters, str.lower(), substring containment.                   *)
(***************************************************************************)
LowerAlpha == <<"a", "b", "c", "d", "e", "f", "g", "h", "i", "j", "k", "l", "m", "n", "o", "p", "q", "r", "s", "t", "u", "v", "w", "x", "y", "z">>
UpperAlpha == <<"A", "B", "C", "D", "E", "F", "G", "H", "I", "J", "K", "L", "M", "N", "O", "P", "Q", "R", "S", "T", "U", "V", "W", "X", "Y", "Z">>

total_games == <<"t", "o", "t", "a", "l", " ", "g", "a", "m", "e", "s">>
average_price == <<"a", "v", "e", "r", "a", "g", "e", " ", "p", "r", "i", "c", "e">>
top_genre == <<"t", "o", "p", " ", "g", "e", "n", "r", "e">>
top_developer == <<"t", "o", "p", " ", "d", "e", "v", "e", "l", "o", "p", "e", "r">>
games_per_year == <<"g", "a", "m", "e", "s", " ", "p", "e", "r", " ", "y", "e", "a", "r">>
summary == <<"s", "u", "m", "m", "a", "r", "y">>
insight == <<"i", "n", "s", "i", "g", "h", "t">>

\* str.lower() on one character: upper-case letters map to lower case,
\* every other character is kept.
ToLower ==
    [c \in {UpperAlpha[i] : i \in 1..Len(UpperAlpha)} |->
        LowerAlpha[CHOOSE i \in 1..Len(UpperAlpha) : UpperAlpha[i] = c]]

LowerChar(c) == IF c \in DOMAIN ToLower THEN ToLower[c] ELSE c

\* q.lower()
lower(q) == [i \in 1..Len(q) |-> LowerChar(q[i])]

\* `p in q` for two strings: p occurs in q at some offset.
Contains(p, q) ==
    \E i \in 1..(Len(q) - Len(p) + 1) : \A k \in 1..Len(p) : q[i + k - 1] = p[k]

(***************************************************************************)
(* The dataset: a sequence of rows read from the CSV file.                 *)
(***************************************************************************)
RowPool ==
    { [price |-> 1000, genres |-> "Action", developer |-> "Valve", release_year |-> 2022],
      [price |-> 2000, genres |-> "RPG",    developer |-> "Indie", release_year |-> 2021],
      [price |-> 3000, genres |-> "Action", developer |-> "Indie", release_year |-> 2023] }

Datasets == UNION { [1..n -> RowPool] : n \in 0..MaxRows }

Column(df, name) == [i \in 1..Len(df) |-> df[i][name]]

RECURSIVE SumSeq(_)
SumSeq(s) == IF Len(s) = 0 THEN 0 ELSE s[1] + SumSeq(Tail(s))

NaN == [nan |-> TRUE]

\* Series.mean(): the sum over the count; NaN for an empty column.
mean(col) ==
    IF Len(col) = 0 THEN NaN
    ELSE [nan |-> FALSE, num |-> SumSeq(col), den |-> Len(col)]

\* f"{x:.2f}" of a price in dollars: two decimals, rounded to the nearest
\* cent (the prices of RowPool give no mean that lies halfway between two
\* cents); a NaN prints as "nan".
Format2f(m) ==
    IF m.nan THEN [text |-> "nan"]
    ELSE LET cents == (2 * m.num + m.den) \div (2 * m.den)
         IN  [text |-> "number", units |-> cents \div 100, frac |-> cents % 100]

(***************************************************************************)
(* Series.value_counts(): the distinct values with their counts, sorted by *)
(* count, largest first.  The keys come out of the hash table in order of  *)
(* first appearance and are then ordered by Series.sort_values, whose      *)
(* default kind is quicksort: not a stable sort, so the order it leaves    *)
(* between equal counts is the sort's own.  It is a function of the counts *)
(* alone, the same on every call.  stable = TRUE is a sort that keeps      *)
(* equal counts in order of first appearance, stable = FALSE one that      *)
(* turns them around.                                                      *)
(***************************************************************************)
RECURSIVE Uniques(_)
Uniques(col) ==
    IF Len(col) = 0 THEN <<>>
    ELSE LET rest == Uniques(SubSeq(col, 1, Len(col) - 1))
             v == col[Len(col)]
         IN  IF \E i \in 1..Len(rest) : rest[i] = v THEN rest ELSE Append(rest, v)

Count(v, col) == Cardinality({i \in 1..Len(col) : col[i] = v})

value_counts(col, stable) ==
    LET keys == Uniques(col)
        n == Len(keys)
        cnt(i) == Count(keys[i], col)
        Before(i, j) ==
            \/ cnt(i) > cnt(j)
            \/ cnt(i) = cnt(j) /\ (IF stable THEN i < j ELSE i > j)
        at(k) == CHOOSE i \in 1..n : Cardinality({j \in 1..n : Before(j, i)}) = k - 1
    IN  [k \in 1..n |-> [value |-> keys[at(k)], count |-> cnt(at(k))]]

\* A plausible slip: the label of the smallest count.
idxmin(vc) ==
    IF Len(vc) = 0 THEN [raised |-> TRUE, exc |-> "ValueError"]
    ELSE LET lo == CHOOSE i \in 1..Len(vc) :
                     /\ \A j \in 1..Len(vc) : vc[j].count >= vc[i].count
                     /\ \A j \in 1..(i - 1) : vc[j].count # vc[i].count
         IN  [raised |-> FALSE, value |-> vc[lo].value]

\* Series.idxmax(): the label of the first occurrence of the largest
\* count; ValueError on an empty series.
idxmax(vc) ==
    IF Len(vc) = 0 THEN [raised |-> TRUE, exc |-> "ValueError"]
    ELSE LET hi == CHOOSE i \in 1..Len(vc) :
                     /\ \A j \in 1..Len(vc) : vc[j].count <= vc[i].count
                     /\ \A j \in 1..(i - 1) : vc[j].count # vc[i].count
         IN  [raised |-> FALSE, value |-> vc[hi].value]

\* sort=False: the groups in order of first appearance.
groupby_size_unsorted(col) ==
    LET keys == Uniques(col)
    IN  [k \in 1..Len(keys) |-> [release_year |-> keys[k], games |-> Count(keys[k], col)]]

\* df.groupby("release_year").size(): one row per distinct key, the keys
\* in ascending order, each with the number of rows of its group.
groupby_size(col) ==
    LET keys == {col[i] : i \in 1..Len(col)}
        at(k) == CHOOSE y \in keys : Cardinality({z \in keys : z < y}) = k - 1
    IN  [k \in 1..Cardinality(keys) |-> [release_year |-> at(k), games |-> Count(at(k), col)]]

(***************************************************************************)
(* The rule-based chatbot.  A response is a record: its kind ("text",      *)
(* "table", or "raise" for an exception that leaves the function), the     *)
(* rule that produced it, and the values formatted into it.                *)
(***************************************************************************)
HelpMessage ==
    [kind |-> "text", rule |-> "help",
     lists |-> <<"total games", "average price", "top genre", "top developer">>]

Raise(rule, exc) == [kind |-> "raise", rule |-> rule, exc |-> exc]

TopText(rule, top) ==
    IF top.raised THEN Raise(rule, top.exc)
    ELSE [kind |-> "text", rule |-> rule, name |-> top.value]

SummaryText(df, stable) ==
    LET g == idxmax(value_counts(Column(df, "genres"), stable))
        d == idxmax(value_counts(Column(df, "developer"), stable))
    IN  IF g.raised THEN Raise("summary", g.exc)
        ELSE IF d.raised THEN Raise("summary", d.exc)
        ELSE [kind |-> "text", rule |-> "summary", n |-> Len(df),
              price |-> Format2f(mean(Column(df, "price"))),
              genre |-> g.value, developer |-> d.value]

\* A plausible slip: the summary rule is tested before the others.
Rules_summary_first(q, df, stable) ==
        IF Contains(summary, q) \/ Contains(insight, q) THEN SummaryText(df, stable)
        ELSE IF Contains(total_games, q)
        THEN [kind |-> "text", rule |-> "total games", n |-> Len(df)]
        ELSE IF Contains(average_price, q)
        THEN [kind |-> "text", rule |-> "average price",
              price |-> Format2f(mean(Column(df, "price")))]
        ELSE IF Contains(top_genre, q)
        THEN TopText("top genre", idxmax(value_counts(Column(df, "genres"), stable)))
        ELSE IF Contains(top_developer, q)
        THEN TopText("top developer", idxmax(value_counts(Column(df, "developer"), stable)))
        ELSE IF Contains(games_per_year, q)
        THEN [kind |-> "table", rule |-> "games per year",
              rows |-> groupby_size(Column(df, "release_year"))]
        ELSE HelpMessage

\* The rules of simple_chatbot, tested in order on the lowered query q.
Rules(q, df, stable) ==
        IF Contains(total_games, q)
        THEN [kind |-> "text", rule |-> "total games", n |-> Len(df)]
        ELSE IF Contains(average_price, q)
        THEN [kind |-> "text", rule |-> "average price",
              price |-> Format2f(mean(Column(df, "price")))]
        ELSE IF Contains(top_genre, q)
        THEN TopText("top genre", idxmax(value_counts(Column(df, "genres"), stable)))
        ELSE IF Contains(top_developer, q)
        THEN TopText("top developer", idxmax(value_counts(Column(df, "developer"), stable)))
        ELSE IF Contains(games_per_year, q)
        THEN [kind |-> "table", rule |-> "games per year",
              rows |-> groupby_size(Column(df, "release_year"))]
        ELSE IF Contains(summary, q) \/ Contains(insight, q)
        THEN SummaryText(df, stable)
        ELSE HelpMessage

simple_chatbot(query, df, stable) == Rules(lower(query), df, stable)

(***************************************************************************)
(* The Gemini chatbot.  use is the module's USE_AI flag; outcome is what   *)
(* model.generate_content does when it is called: it returns a text        *)
(* ("text") or raises ("raises").  calls counts the calls of               *)
(* model.generate_content made by this call of ai_chatbot.                 *)
(***************************************************************************)
\* A plausible slip: the USE_AI guard is missing; with no model configured
\* the call itself fails.
ai_chatbot_unguarded(question, use, outcome) ==
    IF use /\ outcome = "text"
    THEN [kind |-> "answer", calls |-> 1]
    ELSE [kind |-> "api_error", calls |-> 1]

\* A plausible slip: no try/except around the call.
ai_chatbot_uncaught(question, use, outcome) ==
    IF ~use THEN [kind |-> "disabled", calls |-> 0]
    ELSE IF outcome = "text"
    THEN [kind |-> "answer", calls |-> 1]
    ELSE [kind |-> "raise", calls |-> 1]

ai_chatbot(question, use, outcome) ==
    IF ~use THEN [kind |-> "disabled", calls |-> 0]
    ELSE IF outcome = "text"
    THEN [kind |-> "answer", calls |-> 1]
    ELSE [kind |-> "api_error", calls |-> 1]

Outcomes == {"text", "raises"}

(***************************************************************************)
(* Queries.  A query is typed text: the concatenation of a few chunks,     *)
(* among them the phrases of the rules, one with an upper-case letter, a   *)
(* fragment that completes to a phrase only with its neighbour, and text   *)
(* no rule knows.                                                          *)
(***************************************************************************)
xyz == <<"x", "y", "z">>
Summary_ == <<"S", "u", "m", "m", "a", "r", "y">>
total_ == <<"t", "o", "t", "a", "l", " ">>

Phrases ==
    {total_games, average_price, top_genre, top_developer, games_per_year,
     summary, insight}

Chunks == Phrases \cup {xyz, Summary_, total_}

RECURSIVE Join(_)
Join(cs) == IF Len(cs) = 0 THEN <<>> ELSE cs[1] \o Join(Tail(cs))

Queries == { Join(cs) : cs \in UNION { [1..n -> Chunks] : n \in 0..MaxChunks } }

\* What is typed into the text input of the page.
PageQueries == {<<>>, xyz, Summary_} \cup Phrases

(***************************************************************************)
(* State.                                                                  *)
(***************************************************************************)
VARIABLES
    script,          \* which of the two scripts runs: "app" or "chatbot"
    GEMINI_API_KEY,  \* the credential of the environment: "" when absent
    configure_ok,    \* whether genai.configure / GenerativeModel succeed
    argsort_stable,  \* whether the sort under value_counts keeps ties in order
    cache,           \* the st.cache_data memo of load_data
    df,              \* the dataframe of the last run
    USE_AI,          \* the flag computed by the last run
    page,            \* the page drawn by the last run
    query,           \* the value of the text input
    use_ai,          \* the 'Enable AI Answer' checkbox
    result,          \* what simple_chatbot(query) did in the last run
    ai_out,          \* what ai_chatbot(query) gave in the last run ("none": not called)
    calls,           \* calls of model.generate_content in the last run
    dashboard,       \* what the Dashboard page drew in the last run
    status           \* "ok", or the exception that ended the last run

vars ==
    <<script, GEMINI_API_KEY, configure_ok, argsort_stable, cache, df, USE_AI,
      page, query, use_ai, result, ai_out, calls, dashboard, status>>

env == <<script, GEMINI_API_KEY, configure_ok, argsort_stable>>

Pages == {"Dashboard", "Dataset", "Chatbot"}

NoResult == [kind |-> "none", rule |-> "none"]
NoAnswer == [kind |-> "none", calls |-> 0]
NoDashboard == [kind |-> "none"]

EmptyCache == [loaded |-> FALSE, value |-> <<>>]

\* A plausible slip: no memo, the file is read again on every run and has
\* whatever rows it has by then.
load_data_uncached(c) == Datasets

\* @st.cache_data load_data(): the file is read on the first call only;
\* later calls return the memoized rows.
load_data(c) == IF c.loaded THEN {c.value} ELSE Datasets

\* USE_AI after the configuration block.
configure(key, ok) == key # "" /\ ok

\* The Dashboard page: three metrics, then the chart.  The metrics are
\* drawn one by one, so the first two are on the page when the third raises.
DashboardPage(d, stable) ==
    LET top == idxmax(value_counts(Column(d, "genres"), stable))
        avg == Format2f(mean(Column(d, "price")))
    IN  IF top.raised
        THEN [result |-> NoResult, ai |-> NoAnswer, status |-> top.exc,
              dashboard |-> [kind |-> "raise", n |-> Len(d), price |-> avg,
                             exc |-> top.exc]]
        ELSE [result |-> NoResult, ai |-> NoAnswer, status |-> "ok",
              dashboard |-> [kind |-> "metrics", n |-> Len(d), price |-> avg,
                             genre |-> top.value,
                             chart |-> groupby_size(Column(d, "release_year"))]]

DatasetPage(d) ==
    [result |-> NoResult, ai |-> NoAnswer, status |-> "ok", dashboard |-> NoDashboard]

\* The query handling of the Chatbot page (and of chatbot.py): nothing for
\* an empty query; otherwise the classifier's answer is computed and drawn,
\* and then, with the checkbox on and USE_AI set, the AI answer.
ChatbotPage(q, ua, use, d, stable, outcome) ==
    IF Len(q) = 0
    THEN [result |-> NoResult, ai |-> NoAnswer, status |-> "ok", dashboard |-> NoDashboard]
    ELSE LET r == simple_chatbot(q, d, stable)
         IN  IF r.kind = "raise"
             THEN [result |-> r, ai |-> NoAnswer, status |-> r.exc, dashboard |-> NoDashboard]
             ELSE IF ua /\ use
             THEN LET a == ai_chatbot(q, use, outcome)
                  IN  [result |-> r, ai |-> a,
                       status |-> IF a.kind = "raise" THEN "Exception" ELSE "ok",
                       dashboard |-> NoDashboard]
             ELSE [result |-> r, ai |-> NoAnswer, status |-> "ok", dashboard |-> NoDashboard]

\* What one run of the script draws, with the widgets at p, q, ua.
View(s, p, q, ua, use, d, stable, outcome) ==
    IF s = "chatbot" \/ p = "Chatbot"
    THEN ChatbotPage(q, ua, use, d, stable, outcome)
    ELSE IF p = "Dashboard" THEN DashboardPage(d, stable)
    ELSE DatasetPage(d)

\* One run of the script from top to bottom: load_data through the memo,
\* the configuration block, then the page.
RunScript(p, q, ua, outcome) ==
    \E d \in load_data(cache) :
        \E use \in {configure(GEMINI_API_KEY, configure_ok)} :
            \E v \in {View(script, p, q, ua, use, d, argsort_stable, outcome)} :
                /\ cache' = [loaded |-> TRUE, value |-> d]
                /\ df' = d
                /\ USE_AI' = use
                /\ page' = p
                /\ query' = q
                /\ use_ai' = ua
                /\ result' = v.result
                /\ ai_out' = v.ai.kind
                /\ calls' = v.ai.calls
                /\ dashboard' = v.dashboard
                /\ status' = v.status
                /\ UNCHANGED env

\* The state after the first run of the script: app.py opens on the
\* Dashboard, chatbot.py has the one page; the text input is empty and the
\* checkbox has its default, USE_AI.
Init ==
    /\ script \in {"app", "chatbot"}
    /\ GEMINI_API_KEY \in {"", "key"}
    /\ configure_ok \in BOOLEAN
    /\ GEMINI_API_KEY = "" => configure_ok
    /\ argsort_stable \in BOOLEAN
    /\ page = IF script = "app" THEN "Dashboard" ELSE "Chatbot"
    /\ query = <<>>
    /\ USE_AI = configure(GEMINI_API_KEY, configure_ok)
    /\ use_ai = (page = "Chatbot" /\ USE_AI)
    /\ \E d \in load_data(EmptyCache) :
         LET v == View(script, page, query, use_ai, USE_AI, d, argsort_stable, "text")
         IN  /\ cache = [loaded |-> TRUE, value |-> d]
             /\ df = d
             /\ result = v.result
             /\ ai_out = v.ai.kind
             /\ calls = v.ai.calls
             /\ dashboard = v.dashboard
             /\ status = v.status

(***************************************************************************)
(* The user's interactions.  Each one re-runs the script.  The widgets of  *)
(* the Chatbot page exist only while that page is drawn: drawn anew, the   *)
(* text input is empty and the checkbox has its default, USE_AI.           *)
(***************************************************************************)
\* The sidebar radio of app.py is set to another page.
Navigate(p) ==
    /\ script = "app"
    /\ p # page
    /\ \E outcome \in Outcomes :
         RunScript(p, <<>>,
                   p = "Chatbot" /\ configure(GEMINI_API_KEY, configure_ok),
                   outcome)

\* A query is typed into the text input.
Ask(q) ==
    /\ page = "Chatbot"
    /\ q # query
    /\ \E outcome \in Outcomes : RunScript(page, q, use_ai, outcome)

\* The 'Enable AI Answer' checkbox is clicked.
ToggleUseAi ==
    /\ page = "Chatbot"
    /\ \E outcome \in Outcomes : RunScript(page, query, ~use_ai, outcome)

\* The script is run again with the widgets as they are.
Rerun ==
    \E outcome \in Outcomes : RunScript(page, query, use_ai, outcome)

Next ==
    \/ \E p \in Pages : Navigate(p)
    \/ \E q \in PageQueries : Ask(q)
    \/ ToggleUseAi
    \/ Rerun

Spec == Init /\ [][Next]_vars

(***************************************************************************)
(* The two functions called on their own, as a test calls them, from the   *)
(* state chatbot.py is in once it is loaded.  simple_chatbot does not read *)
(* the credential, so UnitSpec starts without one; AiSpec starts from      *)
(* every credential.                                                       *)
(***************************************************************************)
Idle == result = NoResult /\ ai_out = "none"

CallSimpleChatbot(q) ==
    /\ Idle
    /\ \E r \in {simple_chatbot(q, df, argsort_stable)} :
           /\ query' = q
           /\ result' = r
           /\ status' = IF r.kind = "raise" THEN r.exc ELSE "ok"
    /\ UNCHANGED <<env, cache, df, USE_AI, page, use_ai, ai_out, calls, dashboard>>

\* ua is where the checkbox stands when the function is called.
CallAiChatbot(q, ua, outcome) ==
    /\ Idle
    /\ \E a \in {ai_chatbot(q, USE_AI, outcome)} :
           /\ query' = q
           /\ use_ai' = ua
           /\ ai_out' = a.kind
           /\ calls' = a.calls
           /\ status' = IF a.kind = "raise" THEN "Exception" ELSE "ok"
    /\ UNCHANGED <<env, cache, df, USE_AI, page, result, dashboard>>

Return ==
    /\ ~Idle
    /\ query' = <<>>
    /\ result' = NoResult
    /\ ai_out' = "none"
    /\ calls' = 0
    /\ status' = "ok"
    /\ UNCHANGED <<env, cache, df, USE_AI, page, use_ai, dashboard>>

UnitInit == Init /\ script = "chatbot" /\ GEMINI_API_KEY = ""

UnitNext ==
    \/ \E q \in Queries : CallSimpleChatbot(q)
    \/ Return

UnitSpec == UnitInit /\ [][UnitNext]_vars

AiInit == Init /\ script = "chatbot"

AiNext ==
    \/ \E q \in PageQueries, ua \in BOOLEAN, outcome \in Outcomes :
         CallAiChatbot(q, ua, outcome)
    \/ Return

AiSpec == AiInit /\ [][AiNext]_vars

(***************************************************************************)
(* What the claims speak of, stated apart from the operators above.        *)
(***************************************************************************)
\* The rules of the specification's table, by priority.
RulePhrases ==
    << {total_games}, {average_price}, {top_genre}, {top_developer},
       {games_per_year}, {summary, insight} >>

RuleNames ==
    << "total games", "average price", "top genre", "top developer",
       "games per year", "summary" >>

\* The upper-case form of each lower-case letter.
UpperOf ==
    [d \in {LowerAlpha[j] : j \in 1..Len(LowerAlpha)} |->
        UpperAlpha[CHOOSE j \in 1..Len(LowerAlpha) : LowerAlpha[j] = d]]

\* c is the letter d of a phrase, in lower or in upper case.
SameLetter(c, d) == c = d \/ (d \in DOMAIN UpperOf /\ UpperOf[d] = c)

\* The phrase p occurs in the text q, letter case ignored.
Occurs(p, q) ==
    \E i \in 1..(Len(q) - Len(p) + 1) :
        \A k \in 1..Len(p) : SameLetter(q[i + k - 1], p[k])

Hits(q) == {i \in 1..Len(RulePhrases) : \E p \in RulePhrases[i] : Occurs(p, q)}

Lowest(S) == CHOOSE i \in S : \A j \in S : i <= j

\* The rule the specification's table gives a query whose hits are h.
Expected(h) == IF h = {} THEN "help" ELSE RuleNames[Lowest(h)]

Range(s) == {s[i] : i \in 1..Len(s)}

MaxCount(col) == Lowest({n \in 0..Len(col) : \A v \in Range(col) : Count(v, col) <= n})

FirstIndex(v, col) == Lowest({i \in 1..Len(col) : col[i] = v})

MostFrequent(v, col) == v \in Range(col) /\ Count(v, col) = MaxCount(col)

FirstOfTheTied(v, col) ==
    \A w \in Range(col) : MostFrequent(w, col) => FirstIndex(v, col) <= FirstIndex(w, col)

Tie(col) == \E v, w \in Range(col) : v # w /\ MostFrequent(v, col) /\ MostFrequent(w, col)

\* The values simple_chatbot reported as the top of a column in the last
\* call, each with its column.
TopsReported ==
    (IF result.kind = "text" /\ result.rule = "top genre"
       THEN {<<result.name, Column(df, "genres")>>} ELSE {})
    \cup (IF result.kind = "text" /\ result.rule = "top developer"
       THEN {<<result.name, Column(df, "developer")>>} ELSE {})
    \cup (IF result.kind = "text" /\ result.rule = "summary"
       THEN {<<result.genre, Column(df, "genres")>>,
             <<result.developer, Column(df, "developer")>>} ELSE {})

(***************************************************************************)
(* C1.  The response to a query is the one of the lowest-numbered rule     *)
(* one of whose phrases occurs in the query, letter case ignored; when no  *)
(* phrase occurs it is the help message.  (UnitSpec)                       *)
(***************************************************************************)
C1_FirstMatchWins ==
    result # NoResult => result.rule = Expected(Hits(query))

\* A query with "Summary" and, after it, "total games" got the answer of rule 1.
C1_Witness ==
    /\ result.kind = "text" /\ result.rule = "total games"
    /\ query # lower(query)
    /\ Hits(query) = {1, 6}
    /\ \E i \in 1..Len(query) : SubSeq(query, i, i + Len(total_games) - 1) = total_games
                                 /\ i > Len(summary)

(***************************************************************************)
(* C2.  With USE_AI False (no key, or the configuration raised),           *)
(* ai_chatbot returns the disabled message for every question and every    *)
(* setting of the checkbox, and model.generate_content is not called.      *)
(* (AiSpec)                                                                *)
(***************************************************************************)
C2_DisabledNeverCalls ==
    ~USE_AI => calls = 0 /\ (~Idle => ai_out = "disabled")

\* ai_chatbot was called with the checkbox on after the configuration raised.
C2_Witness ==
    ~USE_AI /\ GEMINI_API_KEY # "" /\ use_ai /\ Len(query) > 0 /\ ai_out = "disabled"

(***************************************************************************)
(* C3.  In every run the model is called at most once, and only with the   *)
(* checkbox on, USE_AI True and a non-empty query; and every non-empty     *)
(* query on the Chatbot page gets one classifier response drawn.  (Spec)   *)
(***************************************************************************)
C3_OneResponseAtMostOneCall ==
    /\ calls <= 1
    /\ calls = 1 => use_ai /\ USE_AI /\ Len(query) > 0
    /\ (page = "Chatbot" /\ Len(query) > 0) => result.kind \in {"text", "table"}

\* The part of C3 about the model call alone.
C3_CallOnlyWhenEnabled ==
    /\ calls <= 1
    /\ calls = 1 => use_ai /\ USE_AI /\ Len(query) > 0 /\ page = "Chatbot"

(***************************************************************************)
(* C4.  When model.generate_content raises, ai_chatbot returns the error   *)
(* text, the run ends without an exception, and the classifier response    *)
(* drawn before it is the one simple_chatbot gives for the query.  (Spec)  *)
(***************************************************************************)
C4_AiFailureCaught ==
    (calls = 1 /\ ai_out # "answer") =>
        /\ ai_out = "api_error"
        /\ status = "ok"
        /\ result.kind \in {"text", "table"}
        /\ result = simple_chatbot(query, df, argsort_stable)

\* The model call failed after the table of games per year was drawn.
C4_Witness ==
    calls = 1 /\ ai_out = "api_error" /\ result.kind = "table" /\ Len(df) > 0

(***************************************************************************)
(* C5.  Over zero rows a request for the average price ends in a message,  *)
(* not an exception, and no NaN is formatted into what is drawn: neither   *)
(* into the chatbot's response nor into the Dashboard metric.  (Spec)      *)
(***************************************************************************)
C5_EmptyAverageIsError ==
    Len(df) = 0 =>
        /\ Expected(Hits(query)) \in {"average price", "summary"} =>
               result.kind = "text" /\ "price" \notin DOMAIN result
        /\ dashboard.kind # "none" =>
               dashboard.kind = "metrics" /\ dashboard.price.text # "nan"

(***************************************************************************)
(* C6.  simple_chatbot never raises: for every dataset and every query it  *)
(* returns a text or a table.  (UnitSpec)                                  *)
(***************************************************************************)
C6_ClassifierNeverRaises ==
    result # NoResult => result.kind \in {"text", "table"}

(***************************************************************************)
(* C7.  A query in which no phrase occurs gets the help message, and the   *)
(* help message names every rule.  (UnitSpec)                              *)
(***************************************************************************)
C7_HelpListsIntents ==
    (result # NoResult /\ Hits(query) = {}) =>
        /\ result = HelpMessage
        /\ \A i \in 1..Len(RuleNames) : RuleNames[i] \in Range(result.lists)

(***************************************************************************)
(* C8.  No run changes the dataset: the dataframe and the memo stay what   *)
(* the first load made them, and on the Chatbot page an unchanged query    *)
(* gets an unchanged classifier response.  (Spec)                          *)
(***************************************************************************)
C8_DatasetFrozen ==
    [][ /\ df' = df
        /\ cache' = cache
        /\ (page = "Chatbot" /\ page' = "Chatbot" /\ query' = query) => result' = result
      ]_vars

\* app.py, after navigating to the Chatbot page, a query and an AI answer.
C8_Witness ==
    /\ script = "app" /\ page = "Chatbot" /\ Len(df) > 0
    /\ result.kind = "text" /\ calls = 1 /\ ai_out = "answer"

C9_TieWitness ==
    /\ result.kind = "text" /\ result.rule = "top genre"
    /\ Tie(Column(df, "genres"))
    /\ ~FirstOfTheTied(result.name, Column(df, "genres"))

(***************************************************************************)
(* C10.  The response to "games per year" is a table with one row per      *)
(* distinct release_year of the dataset, the years strictly ascending,     *)
(* each with the number of rows of that year; the counts add up to the     *)
(* number of rows.  (UnitSpec)                                             *)
(***************************************************************************)
C10_GamesPerYear ==
    (result # NoResult /\ Expected(Hits(query)) = "games per year") =>
        /\ result.kind = "table"
        /\ LET rows == result.rows
               years == Column(df, "release_year")
           IN  /\ \A i, j \in 1..Len(rows) : i < j => rows[i].release_year < rows[j].release_year
               /\ {rows[i].release_year : i \in 1..Len(rows)} = Range(years)
               /\ \A i \in 1..Len(rows) : rows[i].games = Count(rows[i].release_year, years)
               /\ SumSeq([i \in 1..Len(rows) |-> rows[i].games]) = Len(df)

\* The years 2022, 2021, 2021 give the rows (2021, 2), (2022, 1).
C10_Witness ==
    /\ Column(df, "release_year") = <<2022, 2021, 2021>>
    /\ result.kind = "table"
    /\ result.rows = << [release_year |-> 2021, games |-> 2],
                        [release_year |-> 2022, games |-> 1] >>

=============================================================================
